---- MODULE Spec2Model ----
(***************************************************************************)
(* uKids scheduler (src/ukids_scheduler_app.py): the slot catalog          *)
(* (expand_roles_to_slots), the eligibility index (build_long_df,          *)
(* build_eligibility, normalize), the availability index                   *)
(* (parse_availability) and the assignment engine (schedule_by_slots).     *)
(*                                                                         *)
(* Strings that the code inspects character by character (role names,      *)
(* column headers, slot labels) are sequences of one-character strings.    *)
(* Person names are the integers 1..MaxPeople: the code only compares      *)
(* names for equality and sorts them, and the integer order stands for     *)
(* the string order of the stripped names.  Service dates are day numbers  *)
(* of the single month of a run.                                           *)
(***************************************************************************)
EXTENDS Integers, Sequences, FiniteSets, TLC

\* ------------------------------------------------------------------------
\* Bounds of the model
\* ------------------------------------------------------------------------
MaxPeople == 3
NumDateCols == 3
MaxDeviations == 2
MaxPlanLen == 3
MaxCount == 3

\* ------------------------------------------------------------------------
\* Characters and normalize()
\* ------------------------------------------------------------------------
UpperChars == <<"A","B","C","D","E","F","G","H","I","J","K","L","M",
                "N","O","P","Q","R","S","T","U","V","W","X","Y","Z">>

LowerChars == <<"a","b","c","d","e","f","g","h","i","j","k","l","m",
                "n","o","p","q","r","s","t","u","v","w","x","y","z">>

DigitChars == <<"0","1","2","3","4","5","6","7","8","9">>

SeqRange(s) == {s[i] : i \in 1..Len(s)}

\* upper-case letter -> lower-case letter
ToLower ==
  [c \in SeqRange(UpperChars) |->
     LowerChars[CHOOSE i \in 1..Len(UpperChars) : UpperChars[i] = c]]

\* str.lower() on one character
LowerChar(c) == IF c \in DOMAIN ToLower THEN ToLower[c] ELSE c

Lower(s) == [i \in 1..Len(s) |-> LowerChar(s[i])]

\* the character class [a-z0-9]
AlnumChars == SeqRange(LowerChars) \cup SeqRange(DigitChars)

IsAlnum(c) == c \in AlnumChars

\* re.sub(r"[^a-z0-9]+", " ", s): every maximal run of other characters
\* becomes one space (the first character of a run is replaced by the
\* space, the rest of the run is dropped)
SubRuns(s) ==
  LET t == [i \in 1..Len(s) |->
              IF IsAlnum(s[i]) THEN s[i]
              ELSE IF i > 1 /\ ~IsAlnum(s[i - 1]) THEN ""
              ELSE " "]
  IN  SelectSeq(t, LAMBDA c : c # "")

\* index of the first character from i on that is not a blank
RECURSIVE FirstNonBlank(_, _)
FirstNonBlank(s, i) ==
  IF i > Len(s) THEN i
  ELSE IF s[i] # " " THEN i
  ELSE FirstNonBlank(s, i + 1)

\* index of the last character up to i that is not a blank
RECURSIVE LastNonBlank(_, _)
LastNonBlank(s, i) ==
  IF i < 1 THEN i
  ELSE IF s[i] # " " THEN i
  ELSE LastNonBlank(s, i - 1)

\* str.strip(): drop leading and trailing whitespace
Strip(s) == SubSeq(s, FirstNonBlank(s, 1), LastNonBlank(s, Len(s)))

normalize(s) == Strip(SubRuns(Lower(s)))

\* str(i) for a natural number
RECURSIVE DecStr(_)
DecStr(i) ==
  IF i < 10 THEN <<DigitChars[i + 1]>>
  ELSE DecStr(i \div 10) \o <<DigitChars[(i % 10) + 1]>>

\* ------------------------------------------------------------------------
\* Slot catalog
\* ------------------------------------------------------------------------
\* f"{role} #{i}"
SlotLabel(role, i) == role \o <<" ", "#">> \o DecStr(i)

\* variant: the labels are numbered from 0
RoleSlots_ZeroBased(role, n) ==
  IF n <= 0 THEN <<>>
  ELSE IF n = 1 THEN <<role>>
  ELSE [i \in 1..n |-> SlotLabel(role, i - 1)]

\* the slots one (role, n) entry of the plan contributes, in order
RoleSlots(role, n) ==
  IF n <= 0 THEN <<>>
  ELSE IF n = 1 THEN <<role>>
  ELSE [i \in 1..n |-> SlotLabel(role, i)]

\* slot_rows after the first k entries of the plan.  A plan is the
\* sequence of the dict's items in insertion order: <<role, n>> pairs.
RECURSIVE ExpandRows(_, _)
ExpandRows(plan, k) ==
  IF k = 0 THEN <<>>
  ELSE ExpandRows(plan, k - 1) \o RoleSlots(plan[k][1], plan[k][2])

\* slot_index after the first k entries: a later entry overwrites an
\* earlier one with the same label
RECURSIVE ExpandIndex(_, _)
ExpandIndex(plan, k) ==
  IF k = 0 THEN <<>>
  ELSE LET prev == ExpandIndex(plan, k - 1)
           labs == SeqRange(RoleSlots(plan[k][1], plan[k][2]))
       IN  [lab \in DOMAIN prev \cup labs |->
              IF lab \in labs THEN plan[k][1] ELSE prev[lab]]

expand_roles_to_slots(plan) ==
  [slot_rows |-> ExpandRows(plan, Len(plan)),
   slot_index |-> ExpandIndex(plan, Len(plan))]

\* build_slot_plan(): the role -> count table, in declaration order
build_slot_plan ==
  << <<<<"A","g","e"," ","1"," ","l","e","a","d","e","r">>, 1>>,
     <<<<"A","g","e"," ","1"," ","c","l","a","s","s","r","o","o","m">>, 5>>,
     <<<<"A","g","e"," ","1"," ","n","a","p","p","i","e","s">>, 1>>,
     <<<<"A","g","e"," ","1"," ","b","a","g","s"," ","g","i","r","l","s">>, 1>>,
     <<<<"A","g","e"," ","1"," ","b","a","g","s"," ","b","o","y","s">>, 1>>,
     <<<<"A","g","e"," ","2"," ","l","e","a","d","e","r">>, 1>>,
     <<<<"A","g","e"," ","2"," ","c","l","a","s","s","r","o","o","m">>, 4>>,
     <<<<"A","g","e"," ","2"," ","n","a","p","p","i","e","s">>, 1>>,
     <<<<"A","g","e"," ","2"," ","b","a","g","s"," ","g","i","r","l","s">>, 1>>,
     <<<<"A","g","e"," ","2"," ","b","a","g","s"," ","b","o","y","s">>, 1>>,
     <<<<"A","g","e"," ","3"," ","l","e","a","d","e","r">>, 1>>,
     <<<<"A","g","e"," ","3"," ","c","l","a","s","s","r","o","o","m">>, 4>>,
     <<<<"A","g","e"," ","3"," ","b","a","g","s">>, 1>>,
     <<<<"A","g","e"," ","4"," ","l","e","a","d","e","r">>, 1>>,
     <<<<"A","g","e"," ","4"," ","c","l","a","s","s","r","o","o","m">>, 4>>,
     <<<<"A","g","e"," ","5"," ","l","e","a","d","e","r">>, 1>>,
     <<<<"A","g","e"," ","5"," ","c","l","a","s","s","r","o","o","m">>, 3>>,
     <<<<"A","g","e"," ","6"," ","l","e","a","d","e","r">>, 1>>,
     <<<<"A","g","e"," ","6"," ","c","l","a","s","s","r","o","o","m">>, 3>>,
     <<<<"A","g","e"," ","7"," ","l","e","a","d","e","r">>, 1>>,
     <<<<"A","g","e"," ","7"," ","c","l","a","s","s","r","o","o","m">>, 2>>,
     <<<<"A","g","e"," ","8"," ","l","e","a","d","e","r">>, 1>>,
     <<<<"A","g","e"," ","8"," ","c","l","a","s","s","r","o","o","m">>, 2>>,
     <<<<"A","g","e"," ","9"," ","l","e","a","d","e","r">>, 1>>,
     <<<<"A","g","e"," ","9"," ","c","l","a","s","s","r","o","o","m"," ","A">>, 1>>,
     <<<<"A","g","e"," ","9"," ","c","l","a","s","s","r","o","o","m"," ","B">>, 1>>,
     <<<<"A","g","e"," ","1","0"," ","l","e","a","d","e","r">>, 1>>,
     <<<<"A","g","e"," ","1","0"," ","c","l","a","s","s","r","o","o","m">>, 1>>,
     <<<<"A","g","e"," ","1","1"," ","l","e","a","d","e","r">>, 1>>,
     <<<<"A","g","e"," ","1","1"," ","c","l","a","s","s","r","o","o","m">>, 1>>,
     <<<<"S","p","e","c","i","a","l"," ","n","e","e","d","s"," ","l","e","a","d","e","r">>, 1>>,
     <<<<"S","p","e","c","i","a","l"," ","n","e","e","d","s"," ","c","l","a","s","s","r","o","o","m">>, 2>> >>

\* ------------------------------------------------------------------------
\* Inputs of a run
\* ------------------------------------------------------------------------
Names == 1..MaxPeople

DateCols == 1..NumDateCols

\* the grid's empty cell (the code's "")
NoOne == 0

YES_SET == {"yes", "y", "true", "available"}

\* default of schedule_by_slots, and the value the handler passes
max_assignments_per_person == 2

\* The plans the engine is run on: slices of build_slot_plan
\* (Age 7 leader x1, Age 7 classroom x2) and
\* (Age 8 classroom x2, Age 9 leader x1, Age 9 classroom A x1).
Plans == {SubSeq(build_slot_plan, 20, 21), SubSeq(build_slot_plan, 23, 25)}

RECURSIVE RemoveFirstSpace(_)
RemoveFirstSpace(s) ==
  IF s = <<>> THEN s
  ELSE IF Head(s) = " " THEN Tail(s)
  ELSE <<Head(s)>> \o RemoveFirstSpace(Tail(s))

\* how the positions table may spell the heading of a role column:
\* 0 as the plan does, 1 in lower case, 2 padded with blanks,
\* 3 with its first blank missing
HeaderVariant(role, v) ==
  CASE v = 1 -> Lower(role)
    [] v = 2 -> <<" ">> \o role \o <<" ">>
    [] v = 3 -> RemoveFirstSpace(role)
    [] OTHER -> role

\* the strings normalize is applied to: the roles of the plans and the
\* headings of their columns, as written and stripped
NormalizeArgs ==
  LET heads == UNION {{HeaderVariant(plan[k][1], v) :
                         k \in 1..Len(plan), v \in 0..3} : plan \in Plans}
  IN  heads \cup {Strip(h) : h \in heads}

\* normalize over those strings, computed once
NormalizeTable == [s \in NormalizeArgs |-> normalize(s)]

\* normalize(s), read from the table where the table has it
normalized(s) ==
  IF s \in NormalizeArgs THEN NormalizeTable[s] ELSE normalize(s)

\* the day of the month each availability column names: 0 ascending
\* Sundays, 1 descending, 2 the first two columns name the same day,
\* 3 every column names the same day
DateMapVariant(v) ==
  CASE v = 1 -> [c \in DateCols |-> 7 * (NumDateCols + 1 - c)]
    [] v = 2 -> [c \in DateCols |-> IF c = 1 THEN 7 ELSE 7 * (c - 1)]
    [] v = 3 -> [c \in DateCols |-> 7]
    [] OTHER -> [c \in DateCols |-> 7 * c]

\* a cell of the positions table that pd.to_numeric(errors="coerce") turns
\* into NaN (blank or text); no number of the table is this large
NaN == 99

\* a number outside the range 0..5 of is_priority_col
OutOfRange == 9

\* what parse_month_and_dates_from_headers looks at in the heading of a
\* column of the responses table: whether it starts with "are you
\* available", the month of the first alias of MONTH_ALIASES it contains
\* (0: none) and the number that \b(\d{1,2})\b finds (0: none)
Heading(prefix, month, day) ==
  [prefix |-> prefix, month |-> month, day |-> day]

\* the headings of the responses table for the days dmap: 0 "Are you
\* available 7 September?", 1 "Week 1" (a number, no month), 2 "Are you
\* available on the 7th?"-like (no month), 3 the first column of August
\* and the others of September, 4 "7 September" (no prefix)
HeadingVariant(v, dmap) ==
  CASE v = 1 -> [c \in DOMAIN dmap |-> Heading(FALSE, 0, c)]
    [] v = 2 -> [c \in DOMAIN dmap |-> Heading(TRUE, 0, dmap[c])]
    [] v = 3 -> [c \in DOMAIN dmap |->
                   Heading(TRUE, IF c = 1 THEN 8 ELSE 9, dmap[c])]
    [] v = 4 -> [c \in DOMAIN dmap |-> Heading(FALSE, 9, dmap[c])]
    [] OTHER -> [c \in DOMAIN dmap |-> Heading(TRUE, 9, dmap[c])]

\* An input is the nominal one (every person rates every role of the plan
\* 1 and answers "yes" to every date) changed in at most MaxDeviations
\* places.  A change is <<kind, a, b>>:
\*   no p c     person p answers "no" in column c
\*   never p    person p answers "no" in every column (the last person)
\*   absent p   person p has no row in the responses table
\*   zero p k   person p has priority 0 in column k
\*   low p      person p has priority 2 in every column
\*   blank      every cell of priority 0 is left blank instead
\*   cols v n   the first n columns of the positions table are 1 text,
\*              2 hold a 9 in their first row, 3 all 0 (n: all of them,
\*              and for 2 also the first alone)
\*   hdr k v    the heading of role column k is spelled as variant v
\*   dates v    the availability columns name the days of variant v
\*   heads v    the availability headings are worded as variant v
Deviations(plan) ==
       {<<"no", p, c>> : p \in Names, c \in DateCols}
  \cup {<<"never", MaxPeople, 0>>}
  \cup {<<"absent", p, 0>> : p \in Names}
  \cup {<<"zero", p, k>> : p \in Names, k \in 1..Len(plan)}
  \cup {<<"low", p, 0>> : p \in Names}
  \cup {<<"blank", 0, 0>>}
  \cup {<<"cols", v, Len(plan)>> : v \in 1..3}
  \cup {<<"cols", 2, 1>>}
  \cup {<<"hdr", k, v>> : k \in 1..Len(plan), v \in 1..3}
  \cup {<<"dates", v, 0>> : v \in 1..3}
  \cup {<<"heads", v, 0>> : v \in 1..4}

RECURSIVE DeviationSets(_, _)
DeviationSets(plan, n) ==
  IF n = 0 THEN {{}}
  ELSE LET S == DeviationSets(plan, n - 1)
       IN  S \cup {s \cup {x} : s \in S, x \in Deviations(plan)}

InputRoleCols(plan, devs) ==
  [k \in 1..Len(plan) |->
     IF \E v \in 1..3 : <<"hdr", k, v>> \in devs
       THEN HeaderVariant(plan[k][1],
                          CHOOSE v \in 1..3 : <<"hdr", k, v>> \in devs)
       ELSE plan[k][1]]

\* the shape "cols" gives column k (the first of them if several do), or 0
ColumnShape(devs, k) ==
  LET shapes == {d[2] : d \in {x \in devs : x[1] = "cols" /\ k <= x[3]}}
  IN  IF shapes = {} THEN 0
      ELSE CHOOSE v \in shapes : \A w \in shapes : v <= w

InputPositions(plan, devs) ==
  [p \in Names |-> [k \in 1..Len(plan) |->
     LET shape == ColumnShape(devs, k)
         zero == IF <<"blank", 0, 0>> \in devs THEN NaN ELSE 0
     IN  IF shape = 1 THEN NaN
         ELSE IF shape = 2 /\ p = 1 THEN OutOfRange
         ELSE IF shape = 3 \/ <<"zero", p, k>> \in devs THEN zero
         ELSE IF <<"low", p, 0>> \in devs THEN 2
         ELSE 1]]

InputDateMap(devs) ==
  IF \E v \in 1..3 : <<"dates", v, 0>> \in devs
    THEN DateMapVariant(CHOOSE v \in 1..3 : <<"dates", v, 0>> \in devs)
    ELSE DateMapVariant(0)

InputRespCols(devs) ==
  IF \E v \in 1..4 : <<"heads", v, 0>> \in devs
    THEN HeadingVariant(CHOOSE v \in 1..4 : <<"heads", v, 0>> \in devs,
                        InputDateMap(devs))
    ELSE HeadingVariant(0, InputDateMap(devs))

InputResponses(devs) ==
  [p \in {q \in Names : <<"absent", q, 0>> \notin devs} |->
     [c \in DateCols |->
        IF <<"no", p, c>> \in devs \/ <<"never", p, 0>> \in devs
          THEN "no" ELSE "yes"]]

\* ------------------------------------------------------------------------
\* Index construction
\* ------------------------------------------------------------------------
\* sorted(S) for a set of integers
RECURSIVE Sorted(_)
Sorted(S) ==
  IF S = {} THEN <<>>
  ELSE LET m == CHOOSE x \in S : \A y \in S : x <= y
       IN  <<m>> \o Sorted(S \ {m})

\* is_priority_col: the numbers of the column, NaN dropped, are not empty
\* and lie within 0..5
is_priority_col(pos, k) ==
  LET vals == {pos[p][k] : p \in DOMAIN pos} \ {NaN}
  IN  /\ vals # {}
      /\ \A v \in vals : v >= 0 /\ v <= 5

\* role_cols of the handler: the columns of the positions table that are
\* priority columns, each with its heading
RoleCols(cols, pos) ==
  [k \in {j \in DOMAIN cols : is_priority_col(pos, j)} |-> cols[k]]

\* variant: a blank cell is taken for a number
build_long_df_KeepsMissing(pos, cols) ==
  {[person |-> p, role |-> cols[k], priority |-> pos[p][k]] :
     <<p, k>> \in {pk \in (DOMAIN pos) \X (DOMAIN cols) :
                     pos[pk[1]][pk[2]] >= 1}}

\* build_long_df: one record per (person, role column) whose cell is a
\* number (not NaN) of at least 1; the numbers of the tables are whole,
\* so int(round(pr)) leaves them as they are
build_long_df(pos, cols) ==
  {[person |-> p, role |-> cols[k], priority |-> pos[p][k]] :
     <<p, k>> \in {pk \in (DOMAIN pos) \X (DOMAIN cols) :
                     /\ pos[pk[1]][pk[2]] # NaN
                     /\ pos[pk[1]][pk[2]] >= 1}}

\* avail_cols of parse_month_and_dates_from_headers: the columns whose
\* heading starts with "are you available" or, when there is none, the
\* columns whose heading holds a day number and a month alias
AvailCols(heads) ==
  LET pre == {c \in DOMAIN heads : heads[c].prefix}
  IN  IF pre # {} THEN pre
      ELSE {c \in DOMAIN heads : heads[c].day # 0 /\ heads[c].month # 0}

\* info: the columns of avail_cols with a month alias and a day number
InfoCols(heads) ==
  {c \in AvailCols(heads) : heads[c].month # 0 /\ heads[c].day # 0}

\* variant: the months of the headings are not compared
HeaderError_OneMonthAssumed(heads) ==
  IF AvailCols(heads) = {} THEN "No availability columns found."
  ELSE IF InfoCols(heads) = {}
    THEN "Could not parse day/month from availability headers."
  ELSE ""

\* the ValueError parse_month_and_dates_from_headers raises, "" if none
HeaderError(heads) ==
  IF AvailCols(heads) = {} THEN "No availability columns found."
  ELSE IF InfoCols(heads) = {}
    THEN "Could not parse day/month from availability headers."
  ELSE IF Cardinality({heads[c].month : c \in InfoCols(heads)}) > 1
    THEN "Multiple months detected in availability headers."
  ELSE ""

\* date_map: column -> day, for the columns of info
DateMap(heads) == [c \in InfoCols(heads) |-> heads[c].day]

\* build_eligibility: person -> set of stripped role headings
build_eligibility(ldf) ==
  [p \in {r.person : r \in ldf} |->
     {Strip(r.role) : r \in {x \in ldf : x.person = p}}]

\* the availability dict of parse_availability: for each row and each
\* column of date_map, availability[nm][dt] = is_yes; a later column of
\* the same date overwrites an earlier one
ParseAvailabilityDict(resp, dmap) ==
  [nm \in DOMAIN resp |->
     [dt \in {dmap[c] : c \in DOMAIN dmap} |->
        LET last == CHOOSE c \in DOMAIN dmap :
                      /\ dmap[c] = dt
                      /\ \A c2 \in DOMAIN dmap : dmap[c2] = dt => c2 <= c
        IN  resp[nm][last] \in YES_SET]]

\* yes_counts of parse_availability: a Counter, so it has a key only for
\* a person with at least one affirmative answer
YesCounts(resp, dmap) ==
  [nm \in {n \in DOMAIN resp : \E c \in DOMAIN dmap : resp[n][c] \in YES_SET} |->
     Cardinality({c \in DOMAIN dmap : resp[nm][c] \in YES_SET})]

FewYes(resp, dmap) ==
  LET yc == YesCounts(resp, dmap)
  IN  Sorted({n \in DOMAIN yc : yc[n] < 2})

\* variant: the days in column order, duplicates dropped, not sorted
RECURSIVE ServiceDates_ColumnOrder(_)
ServiceDates_ColumnOrder(dmap) ==
  IF Len(dmap) = 0 THEN <<>>
  ELSE LET front == ServiceDates_ColumnOrder(SubSeq(dmap, 1, Len(dmap) - 1))
       IN  IF dmap[Len(dmap)] \in SeqRange(front) THEN front
           ELSE Append(front, dmap[Len(dmap)])

\* sorted(set(date_map.values()))
ServiceDates(dmap) == Sorted({dmap[c] : c \in DOMAIN dmap})

\* ------------------------------------------------------------------------
\* State
\* ------------------------------------------------------------------------
VARIABLES
  pc,              \* position of the run: start, schedule, date, slot,
                   \* done, error
  slot_plan,       \* the role -> count table the engine expands
  pos_cols,        \* headings of the columns of the positions table
  positions,       \* positions table: person -> column -> cell
  resp_cols,       \* headings of the columns of the responses table
  responses,       \* responses table: person -> column -> answer
  error,           \* the messages of st.error, <<>> if none
  role_cols,       \* priority column -> heading
  date_map,        \* availability column -> day
  long_df,         \* (person, role, priority) records with priority >= 1
  availability,    \* person -> day -> BOOLEAN
  service_dates,   \* sorted days
  few_yes_list,    \* roster of people with fewer than 2 "yes"
  slot_rows,       \* slot labels in catalog order
  slot_to_role,    \* slot label -> role
  eligibility,     \* person -> set of role headings
  people,          \* sorted names present in both indexes
  grid,            \* <<slot, day>> -> person or NoOne
  assign_count,    \* running assignment count (a defaultdict)
  assigned_today,  \* people assigned on the current date
  di,              \* index of the current date in service_dates
  si,              \* index of the current slot in slot_rows
  cands,           \* candidate list of the last slot processed
  chosen,          \* person the last slot processed was given, or NoOne
  schedule_df      \* the returned frame: <<slot, column label>> -> person

inputs == <<slot_plan, pos_cols, positions, resp_cols, responses>>

parsed == <<role_cols, long_df, date_map, availability, service_dates,
            few_yes_list>>

catalog == <<slot_rows, slot_to_role, eligibility, people>>

locals == <<cands, chosen>>

vars == <<pc, inputs, error, parsed, catalog, grid, assign_count,
          assigned_today, di, si, locals, schedule_df>>

\* ------------------------------------------------------------------------
\* The candidate filter and the selection of schedule_by_slots
\* ------------------------------------------------------------------------
\* assign_count[p] of a defaultdict(int)
Count(ac, p) == IF p \in DOMAIN ac THEN ac[p] ELSE 0

\* availability.get(p, {}).get(d, False)
Avail(av, p, d) ==
  IF p \in DOMAIN av
    THEN (IF d \in DOMAIN av[p] THEN av[p][d] ELSE FALSE)
    ELSE FALSE

\* the exact-or-normalized role match
RoleOk(elig, p, base_role) ==
  LET elig_roles == IF p \in DOMAIN elig THEN elig[p] ELSE {}
      nb == normalized(base_role)
  IN  \/ base_role \in elig_roles
      \/ \E er \in elig_roles : normalized(er) = nb

\* variants of the candidate filter, each with one filter wrong
IsCandidate_NoTodayCheck(p, d, base_role) ==
  /\ ~(Count(assign_count, p) >= max_assignments_per_person)
  /\ Avail(availability, p, d)
  /\ RoleOk(eligibility, p, base_role)

IsCandidate_QuotaOffByOne(p, d, base_role) ==
  /\ ~(Count(assign_count, p) > max_assignments_per_person)
  /\ p \notin assigned_today
  /\ Avail(availability, p, d)
  /\ RoleOk(eligibility, p, base_role)

IsCandidate_NoAvailCheck(p, d, base_role) ==
  /\ ~(Count(assign_count, p) >= max_assignments_per_person)
  /\ p \notin assigned_today
  /\ RoleOk(eligibility, p, base_role)

\* variant: the first role of the plan has the raised limit of 3
IsCandidate_ExtendedQuota(p, d, base_role) ==
  /\ ~(Count(assign_count, p) >=
         (IF base_role = slot_plan[1][1]
            THEN max_assignments_per_person + 1
            ELSE max_assignments_per_person))
  /\ p \notin assigned_today
  /\ Avail(availability, p, d)
  /\ RoleOk(eligibility, p, base_role)

\* variant: the last role of the plan wants a person who already holds a
\* cell of a role rated 1
IsCandidate_Prerequisite(p, d, base_role) ==
  /\ ~(Count(assign_count, p) >= max_assignments_per_person)
  /\ p \notin assigned_today
  /\ Avail(availability, p, d)
  /\ RoleOk(eligibility, p, base_role)
  /\ base_role = slot_plan[Len(slot_plan)][1] =>
       \E k \in DOMAIN grid :
         /\ grid[k] = p
         /\ \E r \in long_df :
              /\ r.person = p
              /\ r.priority = 1
              /\ normalized(r.role) = normalized(slot_to_role[k[1]])

\* variant: a person on the low-availability roster is passed over
IsCandidate_RosterExcluded(p, d, base_role) ==
  /\ ~(Count(assign_count, p) >= max_assignments_per_person)
  /\ p \notin assigned_today
  /\ Avail(availability, p, d)
  /\ RoleOk(eligibility, p, base_role)
  /\ p \notin SeqRange(few_yes_list)

\* variant: a person who holds a cell of an earlier date is passed over
IsCandidate_OncePerRun(p, d, base_role) ==
  /\ ~(Count(assign_count, p) >= max_assignments_per_person)
  /\ p \notin assigned_today
  /\ Avail(availability, p, d)
  /\ RoleOk(eligibility, p, base_role)
  /\ \A k \in DOMAIN grid : grid[k] # p

\* the four filters of the candidate loop, in the code's order
IsCandidate(p, d, base_role) ==
  /\ ~(Count(assign_count, p) >= max_assignments_per_person)
  /\ p \notin assigned_today
  /\ Avail(availability, p, d)
  /\ RoleOk(eligibility, p, base_role)

\* variant: the loop misses the last person
Cands_SkipLast(d, base_role) ==
  SelectSeq(SubSeq(people, 1, Len(people) - 1),
            LAMBDA p : IsCandidate(p, d, base_role))

\* cands, in the iteration order of people
Cands(d, base_role) ==
  SelectSeq(people, LAMBDA p : IsCandidate(p, d, base_role))

\* list.sort(key=...) is stable: x goes after every element whose key is
\* not greater than its own
RECURSIVE InsertByCount(_, _, _)
InsertByCount(s, x, ac) ==
  IF s = <<>> THEN <<x>>
  ELSE IF Count(ac, Head(s)) <= Count(ac, x)
         THEN <<Head(s)>> \o InsertByCount(Tail(s), x, ac)
         ELSE <<x>> \o s

\* variant: the list is left in iteration order
SortByCount_Unsorted(s, ac) == s

RECURSIVE SortByCount(_, _)
SortByCount(s, ac) ==
  IF s = <<>> THEN <<>>
  ELSE InsertByCount(SortByCount(SubSeq(s, 1, Len(s) - 1), ac), s[Len(s)], ac)

\* variant: the person is moved, the cells held before are cleared
SetCell_MovesPerson(g, cell, p) ==
  [k \in DOMAIN g |->
     IF k = cell THEN p ELSE IF g[k] = p THEN NoOne ELSE g[k]]

\* grid[(slot_row, d)] = chosen
SetCell(g, cell, p) == [g EXCEPT ![cell] = p]

\* variant: the count is raised only for a person who has none yet
Increment_OnlyFirst(ac, p) ==
  [ac EXCEPT ![p] = IF @ = 0 THEN 1 ELSE @]

\* assign_count[chosen] += 1
Increment(ac, p) == [ac EXCEPT ![p] = @ + 1]

\* variant: the slot loop stops one slot short
IsLastSlot_OneShort(i, rows) == i >= Len(rows) - 1

\* "for slot_row in slot_rows" has no further element after the i-th
IsLastSlot(i, rows) == i >= Len(rows)

\* d.strftime("%Y-%m-%d"): within one month the label is decided by the
\* two-digit day
DateLabel(d) == IF d < 10 THEN <<"0">> \o DecStr(d) ELSE DecStr(d)

\* ------------------------------------------------------------------------
\* Initial state and actions
\* ------------------------------------------------------------------------
Init ==
  /\ pc = "start"
  /\ \E plan \in Plans :
       \E devs \in DeviationSets(plan, MaxDeviations) :
         /\ slot_plan = plan
         /\ pos_cols = InputRoleCols(plan, devs)
         /\ positions = InputPositions(plan, devs)
         /\ resp_cols = InputRespCols(devs)
         /\ responses = InputResponses(devs)
  /\ error = <<>>
  /\ role_cols = <<>>
  /\ date_map = <<>>
  /\ long_df = {}
  /\ availability = <<>>
  /\ service_dates = <<>>
  /\ few_yes_list = <<>>
  /\ slot_rows = <<>>
  /\ slot_to_role = <<>>
  /\ eligibility = <<>>
  /\ people = <<>>
  /\ grid = <<>>
  /\ assign_count = <<>>
  /\ assigned_today = {}
  /\ di = 0
  /\ si = 0
  /\ cands = <<>>
  /\ chosen = NoOne
  /\ schedule_df = <<>>

\* the "Generate Schedule" handler from the detection of the role columns
\* up to the call of schedule_by_slots; each st.error is followed by
\* st.stop()
Generate ==
  /\ pc = "start"
  /\ LET rc == RoleCols(pos_cols, positions)
         ldf == build_long_df(positions, rc)
         e == HeaderError(resp_cols)
         dm == DateMap(resp_cols)
     IN  IF DOMAIN rc = {}
           THEN /\ error' = <<"No role columns with priorities (0..5) detected in the positions CSV.">>
                /\ pc' = "error"
                /\ UNCHANGED parsed
         ELSE IF ldf = {}
           THEN /\ error' = <<"No eligible assignments found (all priorities are 0 or missing).">>
                /\ role_cols' = rc
                /\ long_df' = ldf
                /\ pc' = "error"
                /\ UNCHANGED <<date_map, availability, service_dates,
                               few_yes_list>>
         ELSE IF e # ""
           THEN /\ error' = <<"Could not parse month & dates from responses: ", e>>
                /\ role_cols' = rc
                /\ long_df' = ldf
                /\ pc' = "error"
                /\ UNCHANGED <<date_map, availability, service_dates,
                               few_yes_list>>
         ELSE /\ role_cols' = rc
              /\ long_df' = ldf
              /\ date_map' = dm
              /\ service_dates' = ServiceDates(dm)
              /\ availability' = ParseAvailabilityDict(responses, dm)
              /\ few_yes_list' = FewYes(responses, dm)
              /\ error' = <<>>
              /\ pc' = "schedule"
  /\ UNCHANGED <<inputs, catalog, grid, assign_count, assigned_today,
                 di, si, locals, schedule_df>>

\* schedule_by_slots up to its date loop
BeginSchedule ==
  /\ pc = "schedule"
  /\ LET ex == expand_roles_to_slots(slot_plan)
         el == build_eligibility(long_df)
     IN  /\ slot_rows' = ex.slot_rows
         /\ slot_to_role' = ex.slot_index
         /\ eligibility' = el
         /\ people' = Sorted(DOMAIN el \cap DOMAIN availability)
         /\ grid' = [k \in SeqRange(ex.slot_rows) \X SeqRange(service_dates)
                       |-> NoOne]
  /\ assign_count' = <<>>
  /\ di' = 1
  /\ pc' = "date"
  /\ UNCHANGED <<inputs, error, parsed, assigned_today, si, locals,
                 schedule_df>>

\* "for d in service_dates: assigned_today = set()"
StartDate ==
  /\ pc = "date"
  /\ di <= Len(service_dates)
  /\ assigned_today' = {}
  /\ IF Len(slot_rows) = 0
       THEN /\ di' = di + 1
            /\ UNCHANGED <<pc, si>>
       ELSE /\ si' = 1
            /\ pc' = "slot"
            /\ UNCHANGED di
  /\ UNCHANGED <<inputs, error, parsed, catalog, grid, assign_count, locals,
                 schedule_df>>

\* one pass of the slot loop: build cands, sort, assign the first
AssignSlot ==
  /\ pc = "slot"
  /\ LET d == service_dates[di]
         slot_row == slot_rows[si]
         base_role == slot_to_role[slot_row]
         cs == Cands(d, base_role)
         \* the quota test reads assign_count[p] for every p of people,
         \* which creates the missing keys of the defaultdict
         read == [p \in DOMAIN assign_count \cup SeqRange(people) |->
                    Count(assign_count, p)]
     IN  IF cs # <<>>
           THEN LET sorted == SortByCount(cs, read)
                IN  /\ cands' = sorted
                    /\ chosen' = sorted[1]
                    /\ grid' = SetCell(grid, <<slot_row, d>>, sorted[1])
                    /\ assign_count' = Increment(read, sorted[1])
                    /\ assigned_today' = assigned_today \cup {sorted[1]}
           ELSE /\ cands' = <<>>
                /\ assign_count' = read
                /\ UNCHANGED <<grid, assigned_today, chosen>>
  /\ IF ~IsLastSlot(si, slot_rows)
       THEN /\ si' = si + 1
            /\ UNCHANGED <<pc, di>>
       ELSE /\ di' = di + 1
            /\ pc' = "date"
            /\ UNCHANGED si
  /\ UNCHANGED <<inputs, error, parsed, catalog, schedule_df>>

\* after the date loop: the frame is filled from grid and returned
Finish ==
  /\ pc = "date"
  /\ di > Len(service_dates)
  /\ schedule_df' =
       [k \in SeqRange(slot_rows) \X {DateLabel(d) : d \in SeqRange(service_dates)}
          |-> LET d == CHOOSE x \in SeqRange(service_dates) : DateLabel(x) = k[2]
              IN  grid[<<k[1], d>>]]
  /\ pc' = "done"
  /\ UNCHANGED <<inputs, error, parsed, catalog, grid, assign_count,
                 assigned_today, di, si, locals>>

\* the figures the handler derives from the returned frame
total_slots == Cardinality(DOMAIN schedule_df)

filled_slots == Cardinality({k \in DOMAIN schedule_df : schedule_df[k] # NoOne})

\* ------------------------------------------------------------------------
\* expand_roles_to_slots on its own, over bounded role -> count tables
\* ------------------------------------------------------------------------
RolePool == {build_slot_plan[k][1] : k \in 1..4}

RECURSIVE PlansOfLen(_)
PlansOfLen(n) ==
  IF n = 0 THEN {<<>>}
  ELSE {Append(s, <<r, c>>) :
          <<s, r, c>> \in {t \in PlansOfLen(n - 1) \X RolePool \X (0..MaxCount) :
                             \A j \in 1..Len(t[1]) : t[1][j][1] # t[2]}}

ExpandPlans ==
  {build_slot_plan} \cup UNION {PlansOfLen(n) : n \in 0..MaxPlanLen}

InitExpand ==
  /\ pc = "expand"
  /\ slot_plan \in ExpandPlans
  /\ pos_cols = <<>>
  /\ positions = <<>>
  /\ resp_cols = <<>>
  /\ responses = <<>>
  /\ error = <<>>
  /\ role_cols = <<>>
  /\ date_map = <<>>
  /\ long_df = {}
  /\ availability = <<>>
  /\ service_dates = <<>>
  /\ few_yes_list = <<>>
  /\ slot_rows = <<>>
  /\ slot_to_role = <<>>
  /\ eligibility = <<>>
  /\ people = <<>>
  /\ grid = <<>>
  /\ assign_count = <<>>
  /\ assigned_today = {}
  /\ di = 0
  /\ si = 0
  /\ cands = <<>>
  /\ chosen = NoOne
  /\ schedule_df = <<>>

ExpandCatalog ==
  /\ pc = "expand"
  /\ LET ex == expand_roles_to_slots(slot_plan)
     IN  /\ slot_rows' = ex.slot_rows
         /\ slot_to_role' = ex.slot_index
  /\ pc' = "expanded"
  /\ UNCHANGED <<inputs, error, parsed, eligibility, people, grid,
                 assign_count, assigned_today, di, si, locals, schedule_df>>

NextExpand == ExpandCatalog

SpecExpand == InitExpand /\ [][NextExpand]_vars

Next ==
  \/ Generate
  \/ BeginSchedule
  \/ StartDate
  \/ AssignSlot
  \/ Finish

Spec == Init /\ [][Next]_vars

\* ------------------------------------------------------------------------
\* Vocabulary of the properties, stated on the input tables and the grid
\* ------------------------------------------------------------------------
\* priority >= 1 in a role column whose heading is the role, exactly or
\* after normalization
Eligible(p, role) ==
  LET nr == normalized(role)
  IN  \E k \in DOMAIN role_cols :
        /\ positions[p][k] # NaN
        /\ positions[p][k] >= 1
        /\ normalized(role_cols[k]) = nr

\* the answer that counts for day d (the last column naming d) is in
\* YES_SET; a person without a row has no answer
Available(p, d) ==
  /\ p \in DOMAIN responses
  /\ \E c \in DOMAIN date_map :
       /\ date_map[c] = d
       /\ \A c2 \in DOMAIN date_map : date_map[c2] = d => c2 <= c
       /\ responses[p][c] \in YES_SET

\* number of cells holding p
Held(p) == Cardinality({k \in DOMAIN grid : grid[k] = p})

BookedOn(p, d) == \E k \in DOMAIN grid : k[2] = d /\ grid[k] = p

SlotPos(s) == CHOOSE i \in 1..Len(slot_rows) : slot_rows[i] = s

DatePos(d) == CHOOSE i \in 1..Len(service_dates) : service_dates[i] = d

PeoplePos(q) == CHOOSE i \in 1..Len(people) : people[i] = q

\* the slot loop has been through cell k
Processed(k) ==
  \/ pc = "done"
  \/ /\ pc \in {"date", "slot"}
     /\ \/ DatePos(k[2]) < di
        \/ DatePos(k[2]) = di /\ pc = "slot" /\ SlotPos(k[1]) < si

\* cell k is resolved before cell k2
Before(k, k2) ==
  \/ DatePos(k[2]) < DatePos(k2[2])
  \/ DatePos(k[2]) = DatePos(k2[2]) /\ SlotPos(k[1]) < SlotPos(k2[1])

\* the cell the next AssignSlot step resolves
CurrentCell == <<slot_rows[si], service_dates[di]>>

\* ------------------------------------------------------------------------
\* C1: no double-booking.  In every state of a run, and in the returned
\* frame, a person holds at most one cell of a date.
\* ------------------------------------------------------------------------
C1_NoDoubleBooking ==
  /\ \A k1 \in DOMAIN grid :
       grid[k1] # NoOne =>
         \A k2 \in DOMAIN grid :
           (k1[2] = k2[2] /\ grid[k1] = grid[k2]) => k1 = k2
  /\ \A k1 \in DOMAIN schedule_df :
       schedule_df[k1] # NoOne =>
         \A k2 \in DOMAIN schedule_df :
           (k1[2] = k2[2] /\ schedule_df[k1] = schedule_df[k2]) => k1 = k2

\* a person booked on a date was passed over for a later slot of that
\* date that stayed empty, although eligible, available and under quota
C1_Witness ==
  \E k1 \in DOMAIN grid : \E k2 \in DOMAIN grid :
    /\ k1[2] = k2[2]
    /\ SlotPos(k1[1]) < SlotPos(k2[1])
    /\ Processed(k2)
    /\ grid[k1] # NoOne
    /\ grid[k2] = NoOne
    /\ Eligible(grid[k1], slot_to_role[k2[1]])
    /\ Available(grid[k1], k2[2])
    /\ Held(grid[k1]) < 2

\* ------------------------------------------------------------------------
\* C2: quota.  A person's running count and number of cells never exceed
\* 2 (every role of this code is in the default class), and a person
\* whose count has reached 2 is given no further cell.
\* ------------------------------------------------------------------------
C2_Quota ==
  /\ [](\A p \in Names : Count(assign_count, p) <= 2 /\ Held(p) <= 2)
  /\ [][\A p \in Names :
          Count(assign_count, p) >= 2 =>
            \A k \in DOMAIN grid' : grid'[k] = p => grid[k] = p]_vars

\* a person holding 2 cells left a later cell empty although eligible,
\* available and not booked that date
C2_Witness ==
  \E p \in Names : \E k \in DOMAIN grid :
    /\ Held(p) = 2
    /\ Processed(k)
    /\ grid[k] = NoOne
    /\ Eligible(p, slot_to_role[k[1]])
    /\ Available(p, k[2])
    /\ ~BookedOn(p, k[2])

\* ------------------------------------------------------------------------
\* C3: every filled cell holds a person who is eligible for the slot's
\* role and whose answer for the date is affirmative; a person without an
\* availability row (or record) is never assigned.
\* ------------------------------------------------------------------------
C3_EligibleAndAvailable ==
  \A k \in DOMAIN grid :
    grid[k] # NoOne =>
      /\ Eligible(grid[k], slot_to_role[k[1]])
      /\ Available(grid[k], k[2])
      /\ grid[k] \in DOMAIN availability
      /\ k[2] \in DOMAIN availability[grid[k]]
      /\ availability[grid[k]][k[2]]

\* a person without a row in the responses table, eligible for the role
\* and holding nothing, left a cell empty while other cells were filled
C3_Witness ==
  \E p \in Names : \E k \in DOMAIN grid :
    /\ p \notin DOMAIN responses
    /\ Processed(k)
    /\ grid[k] = NoOne
    /\ Eligible(p, slot_to_role[k[1]])
    /\ Held(p) = 0
    /\ \E k2 \in DOMAIN grid : grid[k2] # NoOne

\* ------------------------------------------------------------------------
\* C4: selection rule.  The person a step writes into its cell passes the
\* filters, and no person passing them has a smaller count, or the same
\* count and an earlier place in people.
\* ------------------------------------------------------------------------
C4_Selection ==
  [][(pc = "slot" /\ grid' # grid) =>
       LET d == service_dates[di]
           role == slot_to_role[slot_rows[si]]
           who == grid'[CurrentCell]
           Surv == {q \in SeqRange(people) :
                      /\ Count(assign_count, q) < 2
                      /\ q \notin assigned_today
                      /\ Available(q, d)
                      /\ Eligible(q, role)}
       IN  /\ who \in Surv
           /\ \A q \in Surv :
                \/ Count(assign_count, q) > Count(assign_count, who)
                \/ /\ Count(assign_count, q) = Count(assign_count, who)
                   /\ PeoplePos(q) >= PeoplePos(who)]_vars

\* the last step chose a person over an earlier candidate with a larger
\* count and over a later candidate with the same count
C4_Witness ==
  /\ chosen # NoOne
  /\ \E q \in SeqRange(cands) :
       /\ PeoplePos(q) < PeoplePos(chosen)
       /\ assign_count[q] > assign_count[chosen] - 1
  /\ \E q \in SeqRange(cands) :
       /\ PeoplePos(q) > PeoplePos(chosen)
       /\ assign_count[q] = assign_count[chosen] - 1

\* ------------------------------------------------------------------------
\* C5: a step leaves its cell empty exactly when no person is at once
\* not booked that date, eligible, available and under quota; a step that
\* leaves the cell empty changes no cell and no count and the loop goes on.
\* ------------------------------------------------------------------------
C5_EmptyIffNoCandidate ==
  [][pc = "slot" =>
       LET d == service_dates[di]
           role == slot_to_role[slot_rows[si]]
           some == \E p \in Names :
                     /\ ~BookedOn(p, d)
                     /\ Eligible(p, role)
                     /\ Available(p, d)
                     /\ Count(assign_count, p) < 2
       IN  /\ grid[CurrentCell] = NoOne
           /\ (grid'[CurrentCell] = NoOne) <=> ~some
           /\ ~some =>
                /\ grid' = grid
                /\ \A p \in Names :
                     Count(assign_count', p) = Count(assign_count, p)
                /\ assigned_today' = assigned_today
                /\ \/ pc' = "slot" /\ si' = si + 1 /\ di' = di
                   \/ pc' = "date" /\ di' = di + 1]_vars

\* a cell was left empty and a cell resolved after it was filled
C5_Witness ==
  \E k \in DOMAIN grid : \E k2 \in DOMAIN grid :
    /\ grid[k] = NoOne
    /\ Processed(k)
    /\ Before(k, k2)
    /\ grid[k2] # NoOne

\* ------------------------------------------------------------------------
\* C7: slot catalog expansion.  The entries of the plan contribute their
\* slots in declaration order: an entry of count 1 one slot named after
\* the role, an entry of count N > 1 the slots "role #1" .. "role #N" in
\* ascending order; there are as many slots as the counts add up to, and
\* each slot maps back to the role of its entry.
\* ------------------------------------------------------------------------
RECURSIVE SumCounts(_, _)
SumCounts(plan, k) ==
  IF k = 0 THEN 0 ELSE SumCounts(plan, k - 1) + plan[k][2]

C7_Expansion ==
  pc = "expanded" =>
    /\ Len(slot_rows) = SumCounts(slot_plan, Len(slot_plan))
    /\ \A k \in 1..Len(slot_plan) :
         LET role == slot_plan[k][1]
             n == slot_plan[k][2]
             off == SumCounts(slot_plan, k - 1)
         IN  /\ n = 1 => slot_rows[off + 1] = role
             /\ n > 1 => \A i \in 1..n :
                  slot_rows[off + i] = role \o <<" ", "#", DigitChars[i + 1]>>
             /\ \A i \in 1..n : slot_to_role[slot_rows[off + i]] = role

\* the role table of the program has been expanded to its 52 slots
C7_Witness ==
  /\ pc = "expanded"
  /\ slot_plan = build_slot_plan
  /\ Len(slot_rows) = 52
  /\ \E k \in 1..Len(slot_plan) : slot_plan[k][2] = 1
  /\ \E k \in 1..Len(slot_plan) : slot_plan[k][2] > 1

\* ------------------------------------------------------------------------
\* C8: processing order.  service_dates is in strictly ascending order
\* whatever the order of the columns; a step fills a cell only after
\* every cell already filled, which lies on an earlier date or on the
\* same date in an earlier-declared slot; and with a role of count 1
\* followed by a role of count 2, when exactly three people are eligible
\* and available on the first date, its three slots go to them in order.
\* ------------------------------------------------------------------------
\* declaration order of the catalog, read off the plan and the labels
PlanIndex(s) ==
  CHOOSE k \in 1..Len(slot_plan) : slot_plan[k][1] = slot_to_role[s]

LabelIndex(s) ==
  IF s = slot_to_role[s] THEN 1
  ELSE CHOOSE i \in 1..Len(slot_rows) : s = slot_to_role[s] \o <<" ", "#">> \o DecStr(i)

DeclaredBefore(k, k2) ==
  \/ k[2] < k2[2]
  \/ /\ k[2] = k2[2]
     /\ \/ PlanIndex(k[1]) < PlanIndex(k2[1])
        \/ /\ PlanIndex(k[1]) = PlanIndex(k2[1])
           /\ LabelIndex(k[1]) < LabelIndex(k2[1])

\* the people the scenario is about: eligible for both roles and
\* available on the first date, everybody else out of the first date
ScenarioPeople ==
  {p \in Names : /\ Eligible(p, slot_plan[1][1])
                 /\ Eligible(p, slot_plan[2][1])
                 /\ Available(p, service_dates[1])}

ScenarioHolds ==
  /\ pc \in {"date", "slot", "done"}
  /\ Len(slot_plan) = 2
  /\ slot_plan[1][2] = 1
  /\ slot_plan[2][2] = 2
  /\ pc = "done" \/ di > 1
  /\ Cardinality(ScenarioPeople) = 3
  /\ \A p \in Names \ ScenarioPeople :
       \/ ~Available(p, service_dates[1])
       \/ ~Eligible(p, slot_plan[1][1]) /\ ~Eligible(p, slot_plan[2][1])

C8_ProcessingOrder ==
  /\ [](/\ \A i \in 1..Len(service_dates) : \A j \in 1..Len(service_dates) :
             i < j => service_dates[i] < service_dates[j]
        /\ pc # "start" =>
             SeqRange(service_dates) = {date_map[c] : c \in DOMAIN date_map}
        /\ ScenarioHolds =>
             LET s == Sorted(ScenarioPeople)
                 d == service_dates[1]
             IN  /\ grid[<<slot_rows[1], d>>] = s[1]
                 /\ grid[<<slot_rows[2], d>>] = s[2]
                 /\ grid[<<slot_rows[3], d>>] = s[3]
                 /\ slot_to_role[slot_rows[1]] = slot_plan[1][1]
                 /\ slot_to_role[slot_rows[2]] = slot_plan[2][1]
                 /\ slot_to_role[slot_rows[3]] = slot_plan[2][1])
  /\ [][(pc = "slot" /\ grid' # grid) =>
          LET new == CHOOSE k \in DOMAIN grid : grid'[k] # grid[k]
          IN  \A k \in DOMAIN grid :
                grid[k] # NoOne => DeclaredBefore(k, new)]_vars

\* a finished run whose columns name the days in descending order, in
\* which the scenario applied and cells of two dates were filled
C8_Witness ==
  /\ pc = "done"
  /\ date_map[1] > date_map[2]
  /\ ScenarioHolds
  /\ \E k \in DOMAIN grid : \E k2 \in DOMAIN grid :
       k[2] < k2[2] /\ grid[k] # NoOne /\ grid[k2] # NoOne

\* ------------------------------------------------------------------------
\* C9 as stated: a slot of an extended-quota role accepts a person whose
\* count is 2, a slot of any other role rejects that person.  The source
\* tags no role as extended-quota; the statement is put to the code with
\* the first role of the plan taken as such a role.
\* ------------------------------------------------------------------------
C9_ExtendedQuotaAllowsThird ==
  [][pc = "slot" =>
       LET d == service_dates[di]
           role == slot_to_role[slot_rows[si]]
           atTwo == {p \in Names : /\ Count(assign_count, p) = 2
                                   /\ ~BookedOn(p, d)
                                   /\ Eligible(p, role)
                                   /\ Available(p, d)}
       IN  IF role = slot_plan[1][1]
             THEN atTwo # {} => grid'[CurrentCell] # NoOne
             ELSE grid'[CurrentCell] \notin atTwo]_vars

\* ------------------------------------------------------------------------
\* C9 as amended: a person whose running count is 2 is rejected for the
\* slots of every role; no step takes a count from 2 to 3.
\* ------------------------------------------------------------------------
C9_NoThirdAssignment ==
  /\ [](\A p \in Names : Count(assign_count, p) # 3)
  /\ [][pc = "slot" =>
          \A p \in Names :
            Count(assign_count, p) = 2 =>
              /\ grid'[CurrentCell] # p
              /\ Count(assign_count', p) = 2]_vars

\* a person holding 2 cells left a cell of every role of the plan empty,
\* although eligible, available and not booked on its date
C9_Witness ==
  /\ slot_plan # <<>>
  /\ \E p \in Names :
       /\ Held(p) = 2
       /\ \A j \in 1..Len(slot_plan) :
            \E k \in DOMAIN grid :
              /\ slot_to_role[k[1]] = slot_plan[j][1]
              /\ Processed(k)
              /\ grid[k] = NoOne
              /\ Eligible(p, slot_plan[j][1])
              /\ Available(p, k[2])
              /\ ~BookedOn(p, k[2])

\* ------------------------------------------------------------------------
\* C10 as stated: a slot of a prerequisite-gated role is only filled by a
\* person who already holds a cell of another slot for which their
\* priority is 1.  The source tags no role as prerequisite-gated; the
\* statement is put to the code with the last role of the plan taken as
\* such a role.
\* ------------------------------------------------------------------------
C10_PrerequisiteGated ==
  [][(pc = "slot" /\ grid' # grid
        /\ slot_to_role[slot_rows[si]] = slot_plan[Len(slot_plan)][1]) =>
       LET who == grid'[CurrentCell]
       IN  \E k \in DOMAIN grid :
             /\ k # CurrentCell
             /\ grid[k] = who
             /\ \E c \in DOMAIN role_cols :
                  /\ positions[who][c] = 1
                  /\ normalized(role_cols[c]) = normalized(slot_to_role[k[1]])]_vars

\* ------------------------------------------------------------------------
\* C10 as amended: no role is gated by earlier assignments.  Whenever a
\* slot of any role is processed and some person who holds no cell is
\* eligible and available, the slot is filled, and by a person who holds
\* no cell at the moment of filling.
\* ------------------------------------------------------------------------
C10_NoPrerequisite ==
  [][pc = "slot" =>
       LET d == service_dates[di]
           role == slot_to_role[slot_rows[si]]
           fresh == {p \in Names : /\ Held(p) = 0
                                   /\ Eligible(p, role)
                                   /\ Available(p, d)}
       IN  fresh # {} => grid'[CurrentCell] \in fresh]_vars

\* for every role of the plan, a cell of that role is held by a person
\* who holds no other cell
C10_Witness ==
  /\ slot_plan # <<>>
  /\ \A j \in 1..Len(slot_plan) :
       \E k \in DOMAIN grid :
         /\ slot_to_role[k[1]] = slot_plan[j][1]
         /\ grid[k] # NoOne
         /\ Held(grid[k]) = 1

\* ------------------------------------------------------------------------
\* C11: low-availability roster.  Once parse_availability has returned,
\* the roster holds exactly the people of the responses table whose
\* number of affirmative answers over the availability columns is below
\* 2 (0 or 1), and nobody with 2 or more.
\* ------------------------------------------------------------------------
\* number of availability columns p answered affirmatively
YesAnswers(p) ==
  Cardinality({c \in DOMAIN date_map : responses[p][c] \in YES_SET})

C11_RosterBelowTwo ==
  pc \in {"schedule", "date", "slot", "done"} =>
    SeqRange(few_yes_list) = {p \in DOMAIN responses : YesAnswers(p) < 2}

\* ------------------------------------------------------------------------
\* C12: the availability count never gates scheduling.  The candidate
\* list of every step is made of exactly the people who are under quota,
\* not booked that date, available and eligible, whether on the roster
\* or not; a person of the roster who is the only such person is given
\* the cell and stays on the roster; and, with one availability column
\* per date, every person available on exactly one date is on the roster.
\* ------------------------------------------------------------------------
AvailableDates(p) == {d \in SeqRange(service_dates) : Available(p, d)}

OneColumnPerDate ==
  \A c \in DOMAIN date_map : \A c2 \in DOMAIN date_map :
    date_map[c] = date_map[c2] => c = c2

ShapeErrors ==
  {kind \in {"role columns", "pairs", "headers", "day/month", "months"} :
     CASE kind = "role columns" ->
            \A k \in DOMAIN pos_cols : ~is_priority_col(positions, k)
       [] kind = "pairs" ->
            \A q \in DOMAIN positions : \A k \in DOMAIN pos_cols :
              is_priority_col(positions, k) =>
                positions[q][k] = NaN \/ positions[q][k] < 1
       [] kind = "headers" ->
            /\ \A c \in DOMAIN resp_cols : ~resp_cols[c].prefix
            /\ \A c \in DOMAIN resp_cols :
                 resp_cols[c].day = 0 \/ resp_cols[c].month = 0
       [] kind = "day/month" ->
            /\ \E c \in DOMAIN resp_cols : resp_cols[c].prefix
            /\ \A c \in DOMAIN resp_cols :
                 resp_cols[c].prefix =>
                   resp_cols[c].day = 0 \/ resp_cols[c].month = 0
       [] OTHER ->
            \E c \in InfoCols(resp_cols) : \E c2 \in InfoCols(resp_cols) :
              resp_cols[c].month # resp_cols[c2].month}

MessageOf(kind) ==
  CASE kind = "role columns" ->
         <<"No role columns with priorities (0..5) detected in the positions CSV.">>
    [] kind = "pairs" ->
         <<"No eligible assignments found (all priorities are 0 or missing).">>
    [] kind = "headers" ->
         <<"Could not parse month & dates from responses: ",
           "No availability columns found.">>
    [] kind = "day/month" ->
         <<"Could not parse month & dates from responses: ",
           "Could not parse day/month from availability headers.">>
    [] OTHER ->
         <<"Could not parse month & dates from responses: ",
           "Multiple months detected in availability headers.">>

C14_WriteOnce ==
  /\ [][/\ pc = "schedule" => \A k \in DOMAIN grid' : grid'[k] = NoOne
        /\ pc # "schedule" => DOMAIN grid' = DOMAIN grid
        /\ \A k \in DOMAIN grid :
             /\ grid[k] # NoOne => grid'[k] = grid[k]
             /\ grid'[k] # grid[k] =>
                  /\ pc = "slot"
                  /\ k = CurrentCell
                  /\ grid'[k] \in Names]_vars
  /\ [](pc = "done" =>
          \A k \in DOMAIN grid :
            schedule_df[<<k[1], DateLabel(k[2])>>] = grid[k])

\* a finished run in which a person holds two cells, written by two
\* steps, and a cell processed between them stayed empty
C14_Witness ==
  /\ pc = "done"
  /\ \E k1 \in DOMAIN grid : \E k2 \in DOMAIN grid : \E k3 \in DOMAIN grid :
       /\ grid[k1] # NoOne
       /\ grid[k3] = grid[k1]
       /\ grid[k2] = NoOne
       /\ Before(k1, k2)
       /\ Before(k2, k3)

\* ------------------------------------------------------------------------
\* C15: termination and completeness.  StepsLeft is a natural number
\* that every step of a run lowers and that is 0 exactly when the run
\* has finished or stopped on an input error, so no run goes on for
\* more than StepsLeft steps.  The engine
\* takes the dates in order and, within each date, the slots in order,
\* one pair per step, each pair once; it ends after the last slot of the
\* last date, and the grid and the returned frame have an entry, a
\* person or empty, for every slot of the catalog on every service date.
\* ------------------------------------------------------------------------
\* number of steps a run can still take, at most
StepsLeft ==
  LET S == IF pc \in {"start", "schedule"}
             THEN SumCounts(slot_plan, Len(slot_plan))
             ELSE Len(slot_rows)
      D == Len(service_dates)
  IN  CASE pc = "start" -> NumDateCols * (S + 1) + 3
        [] pc = "schedule" -> NumDateCols * (S + 1) + 2
        [] pc = "date" -> (D + 1 - di) * (S + 1) + 1
        [] pc = "slot" -> (D - di) * (S + 1) + 1 + (S + 1 - si)
        [] OTHER -> 0

C15_TerminatesComplete ==
  /\ [][/\ StepsLeft' < StepsLeft
        /\ (pc = "schedule") => (pc' = "date" /\ di' = 1)
        /\ (pc = "date" /\ di <= Len(service_dates)) =>
             (pc' = "slot" /\ di' = di /\ si' = 1)
        /\ (pc = "slot" /\ si < Len(slot_rows)) =>
             (pc' = "slot" /\ di' = di /\ si' = si + 1)
        /\ (pc = "slot" /\ si = Len(slot_rows)) =>
             (pc' = "date" /\ di' = di + 1)
        /\ (pc = "date" /\ di > Len(service_dates)) => pc' = "done"]_vars
  /\ [](/\ StepsLeft \in Nat
        /\ StepsLeft = 0 <=> pc \in {"done", "error"}
        /\ pc = "date" => di \in 1..(Len(service_dates) + 1)
        /\ pc \in {"date", "slot", "done"} =>
             /\ DOMAIN grid = SeqRange(slot_rows) \X SeqRange(service_dates)
             /\ \A k \in DOMAIN grid : grid[k] \in Names \cup {NoOne}
             /\ Len(slot_rows) > 0 /\ Len(service_dates) > 0
        /\ pc = "slot" =>
             si \in 1..Len(slot_rows) /\ di \in 1..Len(service_dates)
        /\ pc = "done" =>
             /\ di = Len(service_dates) + 1
             /\ \A i \in 1..Len(slot_rows) : \A j \in 1..Len(service_dates) :
                  <<slot_rows[i], DateLabel(service_dates[j])>>
                    \in DOMAIN schedule_df)

\* a finished run over several dates and slots with filled and empty
\* cells
C15_Witness ==
  /\ pc = "done"
  /\ Len(service_dates) >= 2
  /\ Len(slot_rows) >= 3
  /\ \E k \in DOMAIN schedule_df : schedule_df[k] = NoOne
  /\ \E k \in DOMAIN schedule_df : schedule_df[k] # NoOne

\* ------------------------------------------------------------------------
\* C16: count/grid consistency.  At the start of the date loop, after
\* every step of the slot loop and at the end, every person's running
\* count equals the number of cells holding that person; in the finished
\* run the counts add up to filled_slots, the number of non-empty cells
\* of the returned frame.
\* ------------------------------------------------------------------------
RECURSIVE SumOver(_, _)
SumOver(ac, S) ==
  IF S = {} THEN 0
  ELSE LET x == CHOOSE y \in S : TRUE
       IN  ac[x] + SumOver(ac, S \ {x})

C16_CountsMatchGrid ==
  /\ [][pc = "slot" =>
          \A p \in Names :
            Count(assign_count', p) =
              Cardinality({k \in DOMAIN grid' : grid'[k] = p})]_vars
  /\ [](/\ pc = "date" => \A p \in Names : Count(assign_count, p) = Held(p)
        /\ pc = "done" =>
             /\ \A p \in Names : Count(assign_count, p) = Held(p)
             /\ SumOver(assign_count, DOMAIN assign_count) = filled_slots
             /\ filled_slots =
                  Cardinality({k \in DOMAIN grid : grid[k] # NoOne})
             /\ total_slots = Len(slot_rows) * Len(service_dates))

\* a finished run with a person counted twice, a person counted zero
\* times and an empty cell
C16_Witness ==
  /\ pc = "done"
  /\ \E p \in DOMAIN assign_count : assign_count[p] = 2
  /\ \E p \in DOMAIN assign_count : assign_count[p] = 0
  /\ filled_slots >= 3
  /\ filled_slots < total_slots

\* ------------------------------------------------------------------------
\* C17: the assigned-today set is per date, the running count per run.
\* The set is emptied when a date begins and holds exactly the people
\* given a cell of the current date; a person who holds a cell of an
\* earlier date, is under quota, not booked on the current date,
\* available and eligible is on the candidate list; no step lowers or
\* resets a running count.
\* ------------------------------------------------------------------------
C17_TodayPerDateCountPerRun ==
  /\ [](pc = "slot" =>
          assigned_today = {p \in Names : BookedOn(p, service_dates[di])})
  /\ [][/\ (pc = "date" /\ di <= Len(service_dates)) => assigned_today' = {}
        /\ \A p \in Names :
             Count(assign_count', p) >= Count(assign_count, p)
        /\ pc = "slot" =>
             LET d == service_dates[di]
                 role == slot_to_role[slot_rows[si]]
             IN  \A p \in Names :
                   (/\ Held(p) >= 1
                    /\ ~BookedOn(p, d)
                    /\ Count(assign_count, p) < 2
                    /\ Available(p, d)
                    /\ Eligible(p, role)) => p \in SeqRange(cands')]_vars

\* the last step gave a cell to a person who held a cell of an earlier
\* date
C17_Witness ==
  /\ pc = "slot"
  /\ si > 1
  /\ chosen # NoOne
  /\ assign_count[chosen] = 2
  /\ \E k \in DOMAIN grid : grid[k] = chosen /\ k[2] < service_dates[di]
  /\ grid[<<slot_rows[si - 1], service_dates[di]>>] = chosen

\* ------------------------------------------------------------------------
\* C18: eligibility relation.  Among the people under quota, not booked
\* that date and available, the candidates for a slot are exactly those
\* with a priority of at least 1 (a number, not 0, not missing) in some
\* role column whose heading equals the slot's role exactly or after
\* normalization; a person whose priority is 0 or missing in every such
\* column is never a candidate and never given the cell.
\* ------------------------------------------------------------------------
C18_EligibilityRelation ==
  [][pc = "slot" =>
       LET d == service_dates[di]
           role == slot_to_role[slot_rows[si]]
           nr == normalized(role)
           match == {k \in DOMAIN role_cols :
                       role_cols[k] = role \/ normalized(role_cols[k]) = nr}
           rated == {p \in Names :
                       \E k \in match :
                         positions[p][k] # NaN /\ positions[p][k] >= 1}
       IN  /\ \A p \in Names :
                (/\ Count(assign_count, p) < 2
                 /\ p \notin assigned_today
                 /\ Available(p, d)) =>
                  (p \in SeqRange(cands') <=> p \in rated)
           /\ \A p \in Names \ rated :
                p \notin SeqRange(cands') /\ grid'[CurrentCell] # p]_vars

\* a cell stayed empty although a person whose priority for its role is
\* missing was under quota, not booked that date and available, and a
\* person rated for the role holds another cell of the role
C18_Witness ==
  \E k \in DOMAIN grid : \E p \in Names :
    /\ Processed(k)
    /\ grid[k] = NoOne
    /\ Held(p) < 2
    /\ ~BookedOn(p, k[2])
    /\ Available(p, k[2])
    /\ \E c \in DOMAIN role_cols :
         /\ normalized(role_cols[c]) = normalized(slot_to_role[k[1]])
         /\ positions[p][c] = NaN
    /\ \E k2 \in DOMAIN grid :
         /\ slot_to_role[k2[1]] = slot_to_role[k[1]]
         /\ grid[k2] # NoOne

====
